---- MODULE Spec2Model ----
(***************************************************************************)
(* Door Admin: the order-sheet parsing pipeline of parsing.py.             *)
(*                                                                         *)
(* Text is modelled by TLA+ strings, read one character at a time, so the  *)
(* regular expressions, the substring tests and the number conversions of  *)
(* the source are computed on the characters as the source computes them. *)
(* Python floats are IEEE-754 binary64 values; they are modelled exactly   *)
(* as binary expansions that are rounded to 53 significant bits, to        *)
(* nearest, ties to even, after every arithmetic operation.                *)
(***************************************************************************)
EXTENDS Integers, Sequences, FiniteSets, TLC

VARIABLES
    calls,   \* the running parse_pdf generators: id -> frame of the generator
    dim,     \* one call of frac_to_up_decimal: arguments, position, result
    unit,    \* one call of unit_blob_to_note: arguments, position, result
    db,      \* the database of the application: settings, orders and items
    ups,     \* the upload_pdf requests: id -> position, arguments, response
    split    \* the last item_split request: arguments and HTTP status

vars == <<calls, dim, unit, db, ups, split>>

(***************************************************************************)
(* Python values.                                                          *)
(***************************************************************************)
\* Python's None, as a regex group that did not take part in the match
\* gives it and as parse_pdf stores it for "hinge".
None == "<None>"

\* Python truth of a str-or-None value ("if frac:", "if not blob:").
Truthy(v) == v # None /\ v # ""

\* Python's "v or d".
OrElse(v, d) == IF Truthy(v) THEN v ELSE d

\* A local variable: the value v, once computed, under the name the body
\* gives it.
Let(v, Body(_)) == Body(v)

\* The character of s at position i (1-based), "" beyond either end.
Ch(s, i) == IF i >= 1 /\ i <= Len(s) THEN SubSeq(s, i, i) ELSE ""

\* s[i..j] as a string, "" when the range is empty.
Slice(s, i, j) == IF i <= j THEN SubSeq(s, i, j) ELSE ""

DigitChars == "0123456789"
UpperChars == "ABCDEFGHIJKLMNOPQRSTUVWXYZ"
LowerChars == "abcdefghijklmnopqrstuvwxyz"

\* 1-based position of the character c in alphabet, 0 when it is not there.
IndexIn(alphabet, c) ==
    IF \E k \in 1..Len(alphabet) : Ch(alphabet, k) = c
    THEN CHOOSE k \in 1..Len(alphabet) : Ch(alphabet, k) = c
    ELSE 0

\* \d of the regular expressions.
IsDigit(c) == IndexIn(DigitChars, c) > 0

\* \s of the regular expressions and the characters str.strip() removes.
IsSpace(c) == c \in {" ", "\t"}

\* \w of the regular expressions.
IsWordCh(c) ==
    \/ IsDigit(c)
    \/ IndexIn(UpperChars, c) > 0
    \/ IndexIn(LowerChars, c) > 0
    \/ c = "_"

\* str.lower() of one character.
LowerCh(c) ==
    LET k == IndexIn(UpperChars, c) IN IF k > 0 THEN Ch(LowerChars, k) ELSE c

\* str.lower() (the string is halved so that the recursion stays shallow).
RECURSIVE Lower(_)
Lower(s) ==
    IF Len(s) = 0 THEN ""
    ELSE IF Len(s) = 1 THEN LowerCh(s)
    ELSE Lower(Slice(s, 1, Len(s) \div 2)) \o Lower(Slice(s, (Len(s) \div 2) + 1, Len(s)))

\* "sub in s".
Contains(s, sub) ==
    \E i \in 1..(Len(s) - Len(sub) + 1) : SubSeq(s, i, i + Len(sub) - 1) = sub

\* s.startswith(prefix).
StartsWith(s, prefix) ==
    Len(s) >= Len(prefix) /\ Slice(s, 1, Len(prefix)) = prefix

\* str.strip().
Strip(s) ==
    IF \A i \in 1..Len(s) : IsSpace(Ch(s, i)) THEN ""
    ELSE LET first == CHOOSE i \in 1..Len(s) :
                          ~IsSpace(Ch(s, i)) /\ \A j \in 1..(i - 1) : IsSpace(Ch(s, j))
             last  == CHOOSE i \in 1..Len(s) :
                          ~IsSpace(Ch(s, i)) /\ \A j \in (i + 1)..Len(s) : IsSpace(Ch(s, j))
         IN  Slice(s, first, last)

\* int(s) of a string of decimal digits.
RECURSIVE IntOf(_)
IntOf(s) ==
    IF Len(s) = 0 THEN 0
    ELSE 10 * IntOf(Slice(s, 1, Len(s) - 1)) + (IndexIn(DigitChars, Ch(s, Len(s))) - 1)

\* str(n) of a natural number.
RECURSIVE StrOf(_)
StrOf(n) ==
    IF n < 10 THEN Ch(DigitChars, n + 1)
    ELSE StrOf(n \div 10) \o Ch(DigitChars, (n % 10) + 1)

\* 10 ** p.
RECURSIVE Pow10(_)
Pow10(p) == IF p = 0 THEN 1 ELSE 10 * Pow10(p - 1)

(***************************************************************************)
(* Python floats (IEEE-754 binary64).  A finite non-negative float is the  *)
(* exact binary number  ip + 0.limbs : ip is its integer part and limbs    *)
(* the binary digits after the point, most significant first, LimbBits     *)
(* digits to a limb.  Every operation computes the exact result and rounds *)
(* it to MantDig significant bits, to nearest, ties to even.               *)
(***************************************************************************)
\* Significant bits of a Python float (sys.float_info.mant_dig).
MantDig == 53

\* Binary digits in one limb, and the number of values of a limb.
LimbBits == 16
LimbBase == 65536

\* Limbs a division produces before what is left becomes the sticky flag:
\* MantDig bits and the rounding bit after up to 31 leading zeros.
DivLimbs == (MantDig + 33 + LimbBits - 1) \div LimbBits

\* 2 ** k.
RECURSIVE Pow2(_)
Pow2(k) == IF k = 0 THEN 1 ELSE 2 * Pow2(k - 1)

\* Number of binary digits of the natural number n (0 for 0).
RECURSIVE BitLen(_)
BitLen(n) == IF n = 0 THEN 0 ELSE 1 + BitLen(n \div 2)

\* The i-th binary digit after the point (1-based), 0 beyond the last limb.
Bit(limbs, i) ==
    LET j == ((i - 1) \div LimbBits) + 1
    IN  IF j > Len(limbs) THEN 0
        ELSE (limbs[j] \div Pow2(LimbBits - 1 - ((i - 1) % LimbBits))) % 2

\* Number of zero digits after the point before the first one (all of them
\* when there is no one).
LeadingZeros(limbs) ==
    IF \A j \in 1..Len(limbs) : limbs[j] = 0 THEN LimbBits * Len(limbs)
    ELSE LET z == CHOOSE j \in 1..Len(limbs) :
                      limbs[j] # 0 /\ \A k \in 1..(j - 1) : limbs[k] = 0
         IN  LimbBits * (z - 1) + (LimbBits - BitLen(limbs[z]))

\* The limbs without the zero limbs at the end (one float, one representation).
TrimLimbs(limbs) ==
    IF \A j \in 1..Len(limbs) : limbs[j] = 0 THEN <<>>
    ELSE LET z == CHOOSE j \in 1..Len(limbs) :
                      limbs[j] # 0 /\ \A k \in (j + 1)..Len(limbs) : limbs[k] = 0
         IN  SubSeq(limbs, 1, z)

\* limbs + u added to the last limb; carry is what overflows into the
\* integer part.
RECURSIVE AddLast(_, _)
AddLast(limbs, u) ==
    IF Len(limbs) = 0 THEN [limbs |-> <<>>, carry |-> u]
    ELSE LET t == limbs[Len(limbs)] + u
             r == AddLast(SubSeq(limbs, 1, Len(limbs) - 1), t \div LimbBase)
         IN  [limbs |-> r.limbs \o <<t % LimbBase>>, carry |-> r.carry]

\* Round-to-nearest, ties-to-even, of the exact value ip + 0.limbs (+ something
\* below the last digit when sticky) to MantDig significant bits.
Round53(ip, limbs, sticky) ==
    LET n    == LimbBits * Len(limbs)
        keep == IF ip > 0 THEN MantDig - BitLen(ip)
                ELSE LeadingZeros(limbs) + MantDig
    IN  IF n <= keep
        THEN [ip |-> ip, limbs |-> TrimLimbs(limbs)]
        ELSE LET kq   == (keep + LimbBits - 1) \div LimbBits
                 u    == Pow2(LimbBits * kq - keep)
                 kept == [j \in 1..kq |->
                            IF j < kq THEN limbs[j] ELSE (limbs[j] \div u) * u]
                 rnd  == Bit(limbs, keep + 1)
                 rest == sticky \/ \E i \in (keep + 2)..n : Bit(limbs, i) = 1
                 lsb  == IF keep > 0 THEN Bit(limbs, keep) ELSE ip % 2
                 up   == rnd = 1 /\ (rest \/ lsb = 1)
                 inc  == AddLast(kept, u)
             IN  IF up THEN [ip |-> ip + inc.carry, limbs |-> TrimLimbs(inc.limbs)]
                 ELSE [ip |-> ip, limbs |-> TrimLimbs(kept)]

\* The first k limbs of r / d for 0 <= r < d, and the remainder left.
RECURSIVE FracLimbs(_, _, _)
FracLimbs(r, d, k) ==
    IF k = 0 \/ r = 0 THEN [limbs |-> <<>>, rem |-> r]
    ELSE LET rest == FracLimbs((r * LimbBase) % d, d, k - 1)
         IN  [limbs |-> <<(r * LimbBase) \div d>> \o rest.limbs, rem |-> rest.rem]

\* float(n): exact for the integers of the model (below 2^31).
FloatOfInt(n) == [ip |-> n, limbs |-> <<>>]

\* n / d of two Python ints (true division, correctly rounded), d > 0.
TrueDiv(n, d) ==
    LET fl == FracLimbs(n % d, d, DivLimbs)
    IN  Round53(n \div d, fl.limbs, fl.rem # 0)

\* Limbs padded with zero limbs at the end to length n.
PadLimbs(limbs, n) == [j \in 1..n |-> IF j <= Len(limbs) THEN limbs[j] ELSE 0]

\* Sum of two limb sequences of equal length, from the last limb to the first.
RECURSIVE AddLimbs(_, _, _)
AddLimbs(a, b, carry) ==
    IF Len(a) = 0 THEN [limbs |-> <<>>, carry |-> carry]
    ELSE LET t == a[Len(a)] + b[Len(b)] + carry
             r == AddLimbs(SubSeq(a, 1, Len(a) - 1), SubSeq(b, 1, Len(b) - 1),
                           t \div LimbBase)
         IN  [limbs |-> r.limbs \o <<t % LimbBase>>, carry |-> r.carry]

\* x + y of two floats.
FAdd(x, y) ==
    LET n == IF Len(x.limbs) > Len(y.limbs) THEN Len(x.limbs) ELSE Len(y.limbs)
        s == AddLimbs(PadLimbs(x.limbs, n), PadLimbs(y.limbs, n), 0)
    IN  Round53(x.ip + y.ip + s.carry, s.limbs, FALSE)

\* Limbs times the natural number m, from the last limb to the first.
RECURSIVE MulLimbs(_, _, _)
MulLimbs(a, m, carry) ==
    IF Len(a) = 0 THEN [limbs |-> <<>>, carry |-> carry]
    ELSE LET t == a[Len(a)] * m + carry
             r == MulLimbs(SubSeq(a, 1, Len(a) - 1), m, t \div LimbBase)
         IN  [limbs |-> r.limbs \o <<t % LimbBase>>, carry |-> r.carry]

\* The exact product of the float x and the natural number m.
MulExact(x, m) ==
    LET p == MulLimbs(x.limbs, m, 0) IN [ip |-> x.ip * m + p.carry, limbs |-> p.limbs]

\* x * m of a float and a Python int (the int converts exactly).
FMulInt(x, m) == LET e == MulExact(x, m) IN Round53(e.ip, e.limbs, FALSE)

\* math.ceil(x).
Ceil(x) == x.ip + (IF \E j \in 1..Len(x.limbs) : x.limbs[j] # 0 THEN 1 ELSE 0)

\* The digits s, zero-padded on the left to width w.
RECURSIVE ZeroPad(_, _)
ZeroPad(s, w) == IF Len(s) >= w THEN s ELSE ZeroPad("0" \o s, w)

\* f"{x:.{places}f}": the decimal nearest the exact binary value of x at that
\* many places (ties to even), with exactly that many digits after the point.
FormatFixed(x, places) ==
    LET e    == MulExact(x, Pow10(places))
        half == Bit(e.limbs, 1) = 1
        more == \E i \in 2..(LimbBits * Len(e.limbs)) : Bit(e.limbs, i) = 1
        n    == e.ip + (IF half /\ (more \/ e.ip % 2 = 1) THEN 1 ELSE 0)
    IN  IF places = 0 THEN StrOf(n)
        ELSE StrOf(n \div Pow10(places)) \o "." \o ZeroPad(StrOf(n % Pow10(places)), places)

(***************************************************************************)
(* Dimension normalizer.                                                   *)
(***************************************************************************)
\* ceil_to_decimals(v, places).
ceil_to_decimals(v, places) ==
    TrueDiv(Ceil(FMulInt(v, Pow10(places))), Pow10(places))

\* frac.split("/"): the text before and after the first "/".
SplitSlash(frac) ==
    LET k == CHOOSE i \in 1..Len(frac) : Ch(frac, i) = "/" /\ \A j \in 1..(i - 1) : Ch(frac, j) # "/"
    IN  <<Slice(frac, 1, k - 1), Slice(frac, k + 1, Len(frac))>>

\* frac_to_up_decimal(whole, frac, places).  exc names the exception the call
\* raises (None when it returns), val is the float it returns.
frac_to_up_decimal(whole, frac, places) ==
    Let(FloatOfInt(IntOf(whole)), LAMBDA val0 :
        IF ~Truthy(frac)
        THEN [exc |-> None, val |-> ceil_to_decimals(val0, places)]
        ELSE Let(SplitSlash(frac), LAMBDA nd :
             Let(IntOf(nd[1]), LAMBDA num :
             Let(IntOf(nd[2]), LAMBDA den :
                 IF den = 0
                 THEN [exc |-> "ZeroDivisionError", val |-> FloatOfInt(0)]
                 ELSE [exc |-> None,
                       val |-> ceil_to_decimals(FAdd(val0, TrueDiv(num, den)), places)]))))

(***************************************************************************)
(* Unit-token extractor, type and style labels.                            *)
(***************************************************************************)
\* Where a greedy \d+ that starts at position i stops: the first position
\* from i on that holds no digit (i itself when s[i] is no digit).
SkipDigits(s, i) ==
    IF i > Len(s) THEN i
    ELSE CHOOSE j \in i..(Len(s) + 1) :
             ~IsDigit(Ch(s, j)) /\ \A k \in i..(j - 1) : IsDigit(Ch(s, k))

\* Where a greedy \s+ that starts at position i stops.
SkipSpaces(s, i) ==
    IF i > Len(s) THEN i
    ELSE CHOOSE j \in i..(Len(s) + 1) :
             ~IsSpace(Ch(s, j)) /\ \A k \in i..(j - 1) : IsSpace(Ch(s, k))

\* UNIT_TOKEN_RE matches at position i: digits, ")", digits.
UnitTokenAt(s, i) ==
    /\ IsDigit(Ch(s, i))
    /\ Ch(s, SkipDigits(s, i)) = ")"
    /\ IsDigit(Ch(s, SkipDigits(s, i) + 1))

\* The search resuming one character after the start of the match, so that
\* matches may overlap.
UnitTokenResume_Overlapping(s, i) == i + 1

\* Where the search for the next match resumes after a match that starts at i.
UnitTokenResume(s, i) == SkipDigits(s, SkipDigits(s, i) + 1)

\* UNIT_TOKEN_RE.finditer(s) from position pos on: the matches, left to
\* right, each as its groups qty and unit.
RECURSIVE UnitTokens(_, _)
UnitTokens(s, pos) ==
    IF ~\E i \in pos..Len(s) : UnitTokenAt(s, i) THEN <<>>
    ELSE Let(CHOOSE j \in pos..Len(s) :
                 UnitTokenAt(s, j) /\ \A k \in pos..(j - 1) : ~UnitTokenAt(s, k), LAMBDA i :
         Let(SkipDigits(s, i), LAMBDA c :
         Let(SkipDigits(s, c + 1), LAMBDA e :
             <<[qty |-> Slice(s, i, c - 1), unit |-> Slice(s, c + 1, e - 1)]>>
             \o UnitTokens(s, UnitTokenResume(s, i)))))

\* joiner.join(parts).
RECURSIVE Join(_, _)
Join(parts, joiner) ==
    IF Len(parts) = 0 THEN ""
    ELSE IF Len(parts) = 1 THEN parts[1]
    ELSE parts[1] \o joiner \o Join(Tail(parts), joiner)

\* unit_blob_to_note(blob, joiner).
unit_blob_to_note(blob, joiner) ==
    IF ~Truthy(blob) THEN ""
    ELSE LET ms    == UnitTokens(Strip(blob), 1)
             parts == [k \in 1..Len(ms) |-> ms[k].qty \o "x#" \o ms[k].unit]
         IN  Join(parts, joiner)

\* normalize_type that hands the captured text back as it is written.
normalize_type_Raw(t) == OrElse(t, "")

\* normalize_type(t).
normalize_type(t) ==
    LET tl == Lower(OrElse(t, ""))
    IN  IF StartsWith(tl, "drawer front") THEN "Drawer Front" ELSE "Door"

\* style_label(style_raw).
style_label(style_raw) ==
    LET s == Lower(OrElse(style_raw, ""))
    IN  IF Contains(s, "sfp") THEN "SFP"
        ELSE IF Contains(s, "flatdr") \/ Contains(s, "flat") THEN "Flat"
        ELSE ""

(***************************************************************************)
(* The two line grammars.  Both are anchored at the start of the line and  *)
(* matched with re.IGNORECASE.  Every greedy group of the common part has  *)
(* one way to match (what follows a \d+ or a \s+ cannot start with the     *)
(* character the group would give back), so it is matched left to right;   *)
(* the one place where the regex engine's fallback can succeed, the height *)
(* fraction of LINE_PANEL, is tried in the engine's order.                 *)
(***************************************************************************)
\* Where (?:\d+\)\d+\s+)+ stops when its next iteration starts at i
\* (i itself when no iteration matches there).
RECURSIVE UnitBlobEnd(_, _)
UnitBlobEnd(s, i) ==
    Let(SkipDigits(s, i), LAMBDA c :
    Let(SkipDigits(s, c + 1), LAMBDA e :
    Let(SkipSpaces(s, e), LAMBDA m :
        IF c > i /\ Ch(s, c) = ")" /\ e > c + 1 /\ m > e
        THEN UnitBlobEnd(s, m)
        ELSE i)))

\* (?:\s+(?P<frac>\d+/\d+))? tried at position a: whether the group takes
\* part, its text and the position after it.
FracGroup(s, a) ==
    Let(SkipSpaces(s, a), LAMBDA sp :
    Let(SkipDigits(s, sp), LAMBDA c :
    Let(SkipDigits(s, c + 1), LAMBDA e :
        IF sp > a /\ c > sp /\ Ch(s, c) = "/" /\ e > c + 1
        THEN [ok |-> TRUE, text |-> Slice(s, sp, e - 1), pos |-> e]
        ELSE [ok |-> FALSE, text |-> None, pos |-> a])))

\* The part the two grammars share: the optional unit blob, the quantity,
\* the width, "x" and the whole part of the height.  pos is the position
\* after the height's whole part.
DimsPrefix(s) ==
    Let(UnitBlobEnd(s, 1), LAMBDA b :
    Let(SkipDigits(s, b), LAMBDA q :
    Let(SkipSpaces(s, q), LAMBDA w :
    Let(SkipDigits(s, w), LAMBDA we :
    Let(FracGroup(s, we), LAMBDA wf :
    Let(SkipSpaces(s, wf.pos), LAMBDA x :
    Let(SkipSpaces(s, x + 1), LAMBDA h :
    Let(SkipDigits(s, h), LAMBDA he :
        IF /\ q > b /\ w > q /\ we > w
           /\ x > wf.pos /\ LowerCh(Ch(s, x)) = "x"
           /\ h > x + 1 /\ he > h
        THEN [ok |-> TRUE,
              unit_blob |-> IF b > 1 THEN Slice(s, 1, b - 1) ELSE None,
              qty |-> Slice(s, b, q - 1),
              w_whole |-> Slice(s, w, we - 1),
              w_frac |-> wf.text,
              h_whole |-> Slice(s, h, he - 1),
              pos |-> he]
        ELSE [ok |-> FALSE, unit_blob |-> None, qty |-> None, w_whole |-> None,
              w_frac |-> None, h_whole |-> None, pos |-> 0]))))))))

\* (?P<type>Door|Drawer Front) at position i: the text matched, None if none.
TypeAt(s, i) ==
    IF i + 3 <= Len(s) /\ Lower(Slice(s, i, i + 3)) = "door" THEN Slice(s, i, i + 3)
    ELSE IF i + 11 <= Len(s) /\ Lower(Slice(s, i, i + 11)) = "drawer front"
    THEN Slice(s, i, i + 11)
    ELSE None

\* (?:\s+\((?P<style>[^)]+)\))? tried at position i: the style text, None
\* when the group does not take part.
StyleAt(s, i) ==
    LET sp == SkipSpaces(s, i)
    IN  IF sp > i /\ Ch(s, sp) = "(" /\ (\E c \in (sp + 2)..Len(s) : Ch(s, c) = ")")
           /\ Ch(s, sp + 1) # ")"
        THEN LET c == CHOOSE k \in (sp + 2)..Len(s) :
                          Ch(s, k) = ")" /\ \A j \in (sp + 2)..(k - 1) : Ch(s, j) # ")"
             IN  Slice(s, sp + 1, c - 1)
        ELSE None

\* LINE_DOOR_DR.search(line): matched, and the groups of the match.
LINE_DOOR_DR(line) ==
    Let(DimsPrefix(line), LAMBDA d :
    Let(FracGroup(line, d.pos), LAMBDA hf :
    Let(SkipSpaces(line, hf.pos), LAMBDA t :
    Let(TypeAt(line, t), LAMBDA ty :
        IF d.ok /\ t > hf.pos /\ ty # None
        THEN [matched |-> TRUE, unit_blob |-> d.unit_blob, qty |-> d.qty,
              w_whole |-> d.w_whole, w_frac |-> d.w_frac,
              h_whole |-> d.h_whole, h_frac |-> hf.text,
              type |-> ty, style |-> StyleAt(line, t + Len(ty))]
        ELSE [matched |-> FALSE]))))

\* .*\bPanel\b.* matches the text of s from position a to its end.
HasPanelWord(s, a) ==
    \E k \in a..(Len(s) - 4) :
        /\ Lower(Slice(s, k, k + 4)) = "panel"
        /\ ~IsWordCh(Ch(s, k - 1))
        /\ ~IsWordCh(Ch(s, k + 5))

\* LINE_PANEL.search(line): matched, and the groups of the match.  The
\* engine first lets the height fraction take part; if the rest then fails
\* it retries without it, the fraction's text becoming the start of panel.
LINE_PANEL(line) ==
    Let(DimsPrefix(line), LAMBDA d :
    Let(FracGroup(line, d.pos), LAMBDA hf :
    Let(SkipSpaces(line, hf.pos), LAMBDA t1 :
    Let(SkipSpaces(line, d.pos), LAMBDA t0 :
    Let(hf.ok /\ t1 > hf.pos /\ HasPanelWord(line, t1), LAMBDA ok1 :
    Let(t0 > d.pos /\ HasPanelWord(line, t0), LAMBDA ok0 :
        IF d.ok /\ (ok1 \/ ok0)
        THEN [matched |-> TRUE, unit_blob |-> d.unit_blob, qty |-> d.qty,
              w_whole |-> d.w_whole, w_frac |-> d.w_frac,
              h_whole |-> d.h_whole,
              h_frac |-> IF ok1 THEN hf.text ELSE None,
              panel |-> Slice(line, IF ok1 THEN t1 ELSE t0, Len(line))]
        ELSE [matched |-> FALSE]))))))

(***************************************************************************)
(* parse_pdf: the body of the loop over the lines of a page.               *)
(***************************************************************************)
\* The exception of the first of the two dimension conversions that raises,
\* None when both return (the width is converted before the height).
DimsExc(width, height) ==
    IF width.exc # None THEN width.exc ELSE height.exc

\* panel_label with "flat panel" tested before "side panel".
panel_label_FlatFirst(panel_text) ==
    LET pl == Lower(panel_text)
    IN  IF Contains(pl, "flat panel") THEN "Flat Panel"
        ELSE IF Contains(pl, "side panel") /\ Contains(pl, "left") THEN "Side Panel Left"
        ELSE IF Contains(pl, "side panel") /\ Contains(pl, "right") THEN "Side Panel Right"
        ELSE IF Contains(pl, "side panel") THEN "Side Panel"
        ELSE "Panel"

\* The sub-kind label of a panel line from its trailing text.
panel_label(panel_text) ==
    LET pl == Lower(panel_text)
    IN  IF Contains(pl, "side panel") /\ Contains(pl, "left") THEN "Side Panel Left"
        ELSE IF Contains(pl, "side panel") /\ Contains(pl, "right") THEN "Side Panel Right"
        ELSE IF Contains(pl, "side panel") THEN "Side Panel"
        ELSE IF Contains(pl, "flat panel") THEN "Flat Panel"
        ELSE "Panel"

\* The line holds one of the two pagination markers.
IsSkipLine(line) ==
    Contains(line, "Continued to Next Page") \/ Contains(line, "Continued from Last Page")

\* DoorItem with the joiner appended even when there is no unit note.
DoorItem_AlwaysJoin(m1, places, joiner, page_num) ==
    Let(OrElse(m1.unit_blob, ""), LAMBDA unit_blob :
    Let(IntOf(m1.qty), LAMBDA qty :
    Let(frac_to_up_decimal(m1.w_whole, m1.w_frac, places), LAMBDA width :
    Let(frac_to_up_decimal(m1.h_whole, m1.h_frac, places), LAMBDA height :
    Let(normalize_type(m1.type), LAMBDA t_norm :
    Let(style_label(m1.style), LAMBDA lbl :
    Let(unit_blob_to_note(unit_blob, joiner), LAMBDA unit_note :
    Let(t_norm, LAMBDA base_note :
    Let(base_note \o joiner \o unit_note, LAMBDA note :
        IF DimsExc(width, height) # None
        THEN [kind |-> "door", exc |-> DimsExc(width, height), rows |-> <<>>]
        ELSE [kind |-> "door", exc |-> None,
              rows |-> <<[type |-> t_norm, style |-> lbl, qty |-> qty,
                          width_in |-> FormatFixed(width.val, places),
                          height_in |-> FormatFixed(height.val, places),
                          note |-> note, source_page |-> page_num,
                          hinge |-> None]>>])))))))))

\* The record a door / drawer-front match yields, or the exception raised.
DoorItem(m1, places, joiner, page_num) ==
    Let(OrElse(m1.unit_blob, ""), LAMBDA unit_blob :
    Let(IntOf(m1.qty), LAMBDA qty :
    Let(frac_to_up_decimal(m1.w_whole, m1.w_frac, places), LAMBDA width :
    Let(frac_to_up_decimal(m1.h_whole, m1.h_frac, places), LAMBDA height :
    Let(normalize_type(m1.type), LAMBDA t_norm :
    Let(style_label(m1.style), LAMBDA lbl :
    Let(unit_blob_to_note(unit_blob, joiner), LAMBDA unit_note :
    Let(t_norm, LAMBDA base_note :
    Let(IF unit_note = "" THEN base_note ELSE base_note \o joiner \o unit_note, LAMBDA note :
        IF DimsExc(width, height) # None
        THEN [kind |-> "door", exc |-> DimsExc(width, height), rows |-> <<>>]
        ELSE [kind |-> "door", exc |-> None,
              rows |-> <<[type |-> t_norm, style |-> lbl, qty |-> qty,
                          width_in |-> FormatFixed(width.val, places),
                          height_in |-> FormatFixed(height.val, places),
                          note |-> note, source_page |-> page_num,
                          hinge |-> None]>>])))))))))

\* The record a panel match yields, or the exception raised.
PanelItem(m2, places, joiner, page_num) ==
    Let(OrElse(m2.unit_blob, ""), LAMBDA unit_blob :
    Let(IntOf(m2.qty), LAMBDA qty :
    Let(frac_to_up_decimal(m2.w_whole, m2.w_frac, places), LAMBDA width :
    Let(frac_to_up_decimal(m2.h_whole, m2.h_frac, places), LAMBDA height :
    Let(panel_label(m2.panel), LAMBDA token :
    Let(unit_blob_to_note(unit_blob, joiner), LAMBDA unit_note :
    Let(Join(SelectSeq(<<token, unit_note>>, LAMBDA t : t # ""), joiner), LAMBDA note :
        IF DimsExc(width, height) # None
        THEN [kind |-> "panel", exc |-> DimsExc(width, height), rows |-> <<>>]
        ELSE [kind |-> "panel", exc |-> None,
              rows |-> <<[type |-> "Panel", style |-> "Panel", qty |-> qty,
                          width_in |-> FormatFixed(width.val, places),
                          height_in |-> FormatFixed(height.val, places),
                          note |-> OrElse(note, "Panel"), source_page |-> page_num,
                          hinge |-> None]>>])))))))

\* ParseLine with the grammars tried before the pagination markers are looked for.
ParseLine_GrammarFirst(raw, places, joiner, page_num) ==
    Let(Strip(raw), LAMBDA line :
    Let(LINE_DOOR_DR(line), LAMBDA m1 :
    Let(LINE_PANEL(line), LAMBDA m2 :
        IF m1.matched THEN DoorItem(m1, places, joiner, page_num)
        ELSE IF m2.matched THEN PanelItem(m2, places, joiner, page_num)
        ELSE IF IsSkipLine(line) THEN [kind |-> "skip", exc |-> None, rows |-> <<>>]
        ELSE [kind |-> "none", exc |-> None, rows |-> <<>>])))

\* ParseLine with the panel grammar tried before the door / drawer-front one.
ParseLine_PanelFirst(raw, places, joiner, page_num) ==
    Let(Strip(raw), LAMBDA line :
    Let(LINE_DOOR_DR(line), LAMBDA m1 :
    Let(LINE_PANEL(line), LAMBDA m2 :
        IF IsSkipLine(line) THEN [kind |-> "skip", exc |-> None, rows |-> <<>>]
        ELSE IF m2.matched THEN PanelItem(m2, places, joiner, page_num)
        ELSE IF m1.matched THEN DoorItem(m1, places, joiner, page_num)
        ELSE [kind |-> "none", exc |-> None, rows |-> <<>>])))

\* ParseLine with the pages numbered from 0 (enumerate without start=1).
ParseLine_ZeroBasedPage(raw, places, joiner, page_num) ==
    Let(Strip(raw), LAMBDA line :
    Let(LINE_DOOR_DR(line), LAMBDA m1 :
    Let(LINE_PANEL(line), LAMBDA m2 :
        IF IsSkipLine(line) THEN [kind |-> "skip", exc |-> None, rows |-> <<>>]
        ELSE IF m1.matched THEN DoorItem(m1, places, joiner, page_num - 1)
        ELSE IF m2.matched THEN PanelItem(m2, places, joiner, page_num - 1)
        ELSE [kind |-> "none", exc |-> None, rows |-> <<>>])))

\* One pass of the loop body over the raw line: which branch it takes
\* (kind), the exception that leaves it (None when none does) and the
\* records it yields.
ParseLine(raw, places, joiner, page_num) ==
    Let(Strip(raw), LAMBDA line :
    Let(LINE_DOOR_DR(line), LAMBDA m1 :
    Let(LINE_PANEL(line), LAMBDA m2 :
        IF IsSkipLine(line) THEN [kind |-> "skip", exc |-> None, rows |-> <<>>]
        ELSE IF m1.matched THEN DoorItem(m1, places, joiner, page_num)
        ELSE IF m2.matched THEN PanelItem(m2, places, joiner, page_num)
        ELSE [kind |-> "none", exc |-> None, rows |-> <<>>])))

(***************************************************************************)
(* Inputs.                                                                 *)
(***************************************************************************)
\* Bounds of the documents: pages in a document, lines in a document.
MaxPages == 2
MaxLines == 2

\* The raw lines the pages of the documents are made of.
Catalogue == <<
    "2 14 7/8 x 22 Door (SFP)",
    "1 10 1/3 x 5 Flat Panel",
    "1)9 3 12 x 24 Drawer Front (FlatDR)",
    "Page 1 of 2",
    "2 10 1/0 x 20 Door Continued to Next Page",
    "1 3 x 4 Door Panel Continued from Last Page",
    "1 2 1/0 x 3 Door Panel",
    "2 10 x 20 DOOR Side Panel Right",
    "2)9 1)12 1 5 x 6 Right Side Panel Left",
    "  1 2 1/5 x 3 Flat Panel side panel",
    "1 3 x 4 1/2 Side Panel Right",
    "1 3 x 4 End Panel" >>

CatalogueLines == {Catalogue[k] : k \in 1..Len(Catalogue)}

\* The settings decimal_precision and note_joiner a call may be given.
Places  == {2, 3}
Joiners == {" | ", " Panel "}

\* The pairs of settings the calls of parse_pdf are given: the defaults of
\* the application, and a coarser precision with a joiner made of words.
Settings == {<<3, " | ">>, <<2, " Panel ">>}

\* The sequences of at most n lines of the catalogue.
LineSeqs(lines, n) == UNION {[1..k -> lines] : k \in 0..n}

\* The text of a page that shows the lines ls, None for a page without text.
PageText(ls) == IF Len(ls) = 0 THEN None ELSE Join(ls, "\n")

\* The documents of np pages that show the lines ls in order: one for each
\* way of cutting ls into np pages.
Paginations(ls, np) ==
    IF np = 0 THEN (IF Len(ls) = 0 THEN {<<>>} ELSE {})
    ELSE LET cuts == {c \in [0..np -> 0..Len(ls)] :
                         /\ c[0] = 0 /\ c[np] = Len(ls)
                         /\ \A j \in 1..np : c[j - 1] <= c[j]}
         IN  {[j \in 1..np |-> PageText(SubSeq(ls, c[j - 1] + 1, c[j]))] : c \in cuts}

\* The documents of at most maxPages pages and maxLines lines.
Docs(lines, maxPages, maxLines) ==
    UNION {Paginations(ls, np) : ls \in LineSeqs(lines, maxLines), np \in 0..maxPages}

\* No call of frac_to_up_decimal / unit_blob_to_note under observation, no
\* database, no request.
Idle == [pc |-> "idle"]

(***************************************************************************)
(* parse_pdf: the generator.  A document is the sequence of its pages, a   *)
(* page is what page.extract_text() returns for it: its text, the lines    *)
(* separated by "\n", or None for a page without text.                     *)
(***************************************************************************)
\* text.splitlines(): the lines of the text, without their line ends.
RECURSIVE SplitLines(_)
SplitLines(text) ==
    LET ends == {i \in 1..Len(text) : Ch(text, i) = "\n"}
    IN  IF Len(text) = 0 THEN <<>>
        ELSE IF ends = {} THEN <<text>>
        ELSE LET k == CHOOSE i \in ends : \A j \in ends : i <= j
             IN  <<Slice(text, 1, k - 1)>> \o SplitLines(Slice(text, k + 1, Len(text)))

\* The loop body is a pure function of the line, the settings and the page
\* number: ParseLine, tabulated over the lines and settings of the model.
LineTable ==
    [raw \in CatalogueLines, places \in Places, joiner \in Joiners, page_num \in 1..MaxPages |->
        ParseLine(raw, places, joiner, page_num)]

\* The frame of a generator that parse_pdf(pdf_bytes, places, joiner) returns:
\* nothing has run yet.  page_num counts the pages entered, lines are the
\* lines of the current page (text.splitlines()), line_no counts those the
\* inner loop has consumed, rows are the records yielded so far.
NewCall(pdf, places, joiner) ==
    [pdf |-> pdf, places |-> places, joiner |-> joiner,
     page_num |-> 0, lines |-> <<>>, line_no |-> 0, rows |-> <<>>,
     pc |-> "running", exc |-> None]

\* The precision read from one place shared by all the calls.
places_of_Shared(c) == calls[CHOOSE d \in DOMAIN calls : \A e \in DOMAIN calls : d <= e].places

\* The precision and the joiner the loop body of call c works with: its own
\* arguments.
places_of(c) == calls[c].places
joiner_of(c) == calls[c].joiner

\* The current page has no line left (or no page was entered yet).
PageDone(f) == f.line_no = Len(f.lines)

\* The outer loop enters the next page and splits its text into lines.
NextPage(c) ==
    LET f == calls[c]
    IN  /\ f.pc = "running"
        /\ PageDone(f)
        /\ f.page_num < Len(f.pdf)
        /\ calls' = [calls EXCEPT
                        ![c].page_num = f.page_num + 1,
                        ![c].lines = SplitLines(OrElse(f.pdf[f.page_num + 1], "")),
                        ![c].line_no = 0]
        /\ UNCHANGED <<dim, unit, db, ups, split>>

\* The inner loop runs its body on the next line of the current page: it
\* yields the line's record, or nothing, or an exception leaves the generator.
NextLine(c) ==
    LET f == calls[c]
        r == LineTable[f.lines[f.line_no + 1], places_of(c), joiner_of(c), f.page_num]
    IN  /\ f.pc = "running"
        /\ ~PageDone(f)
        /\ calls' = IF r.exc # None
                    THEN [calls EXCEPT ![c].pc = "raised", ![c].exc = r.exc]
                    ELSE [calls EXCEPT ![c].line_no = f.line_no + 1,
                                       ![c].rows = f.rows \o r.rows]
        /\ UNCHANGED <<dim, unit, db, ups, split>>

\* Both loops are over: the generator is exhausted.
Return(c) ==
    LET f == calls[c]
    IN  /\ f.pc = "running"
        /\ PageDone(f)
        /\ f.page_num = Len(f.pdf)
        /\ calls' = [calls EXCEPT ![c].pc = "done"]
        /\ UNCHANGED <<dim, unit, db, ups, split>>

(***************************************************************************)
(* One call of parse_pdf.                                                  *)
(***************************************************************************)
Init ==
    /\ calls \in {[c \in {1} |-> NewCall(pdf, st[1], st[2])] :
                     pdf \in Docs(CatalogueLines, MaxPages, MaxLines), st \in Settings}
    /\ dim = Idle
    /\ unit = Idle
    /\ db = Idle
    /\ ups = Idle
    /\ split = Idle

Next == \E c \in DOMAIN calls : NextPage(c) \/ NextLine(c) \/ Return(c)

Spec == Init /\ [][Next]_vars

(***************************************************************************)
(* Two calls of parse_pdf whose loop bodies run interleaved.               *)
(***************************************************************************)
\* Bounds of the documents of the interleaved calls.
MaxConcPages == 1
MaxConcLines == 2

\* The lines of those documents: one whose record shows both settings, one
\* that raises.
ConcLines == {Catalogue[3], Catalogue[7]}

ConcFrames ==
    {NewCall(pdf, st[1], st[2]) :
        pdf \in Docs(ConcLines, MaxConcPages, MaxConcLines), st \in Settings}

InitConc ==
    /\ calls \in [{1, 2} -> ConcFrames]
    /\ dim = Idle
    /\ unit = Idle
    /\ db = Idle
    /\ ups = Idle
    /\ split = Idle

SpecConc == InitConc /\ [][Next]_vars

(***************************************************************************)
(* One call of frac_to_up_decimal.                                         *)
(***************************************************************************)
\* Bounds of the whole part, the numerator and the denominator.
MaxWhole == 4
MaxNum   == 4
MaxDen   == 10

\* The precisions decimal_precision is specified for.
DimPlaces == 0..4

\* The fraction texts: None (no fraction) and "n/d".
DimFracs ==
    {None} \cup {StrOf(n) \o "/" \o StrOf(d) : n \in 0..MaxNum, d \in 0..MaxDen}

InitDim ==
    /\ calls = <<>>
    /\ dim \in {[pc |-> "call", whole |-> StrOf(w), frac |-> fr, places |-> p,
                 ret |-> [exc |-> None, val |-> FloatOfInt(0)]] :
                    w \in 0..MaxWhole, fr \in DimFracs, p \in DimPlaces}
    /\ unit = Idle
    /\ db = Idle
    /\ ups = Idle
    /\ split = Idle

\* The call returns (or raises).
DimReturn ==
    /\ dim.pc = "call"
    /\ dim' = [dim EXCEPT !.pc = "done",
                          !.ret = frac_to_up_decimal(dim.whole, dim.frac, dim.places)]
    /\ UNCHANGED <<calls, unit, db, ups, split>>

NextDim == DimReturn

SpecDim == InitDim /\ [][NextDim]_vars

(***************************************************************************)
(* One call of unit_blob_to_note.                                          *)
(***************************************************************************)
\* Bound of the length of the blobs built from BlobChars.
MaxBlobLen == 5

BlobChars == {"1", "2", ")", " "}

\* The strings over chars of length n.
RECURSIVE StringsOfLen(_, _)
StringsOfLen(chars, n) ==
    IF n = 0 THEN {""}
    ELSE {s \o c : s \in StringsOfLen(chars, n - 1), c \in chars}

\* The blobs: no blob, every short string over BlobChars, and blobs as the
\* order sheets show them.
Blobs ==
    {None, "2)9 1)12", "2)9 1)12 ", "12)34  5)6 "}
        \cup UNION {StringsOfLen(BlobChars, n) : n \in 0..MaxBlobLen}

InitUnit ==
    /\ calls = <<>>
    /\ dim = Idle
    /\ unit \in {[pc |-> "call", blob |-> b, joiner |-> j, ret |-> ""] :
                    b \in Blobs, j \in Joiners \cup {""}}
    /\ db = Idle
    /\ ups = Idle
    /\ split = Idle

\* The call returns.
UnitReturn ==
    /\ unit.pc = "call"
    /\ unit' = [unit EXCEPT !.pc = "done",
                            !.ret = unit_blob_to_note(unit.blob, unit.joiner)]
    /\ UNCHANGED <<calls, dim, db, ups, split>>

NextUnit == UnitReturn

SpecUnit == InitUnit /\ [][NextUnit]_vars

(***************************************************************************)
(* The database and item_split.  Orders and items are kept in the order of *)
(* their autoincrement ids: the id of a row is its index.                  *)
(***************************************************************************)
\* Bounds: the items the database may hold, the quantities a split request
\* may ask for.
MaxItems == 3
MaxQty == 3

\* Item(order_id=..., **r): the item stored for a record of parse_pdf.
ItemOf(order_id, r) ==
    [order_id |-> order_id, type |-> r.type, style |-> r.style, qty |-> r.qty,
     width_in |-> r.width_in, height_in |-> r.height_in, note |-> r.note,
     source_page |-> r.source_page, hinge |-> r.hinge]

\* The handler with the test of qty1 + qty2 against the quantity left out.
ItemSplit_NoSumCheck(item_id, qty1, qty2) ==
    /\ Len(db.items) < MaxItems
    /\ IF qty1 < 0 \/ qty2 < 0
       THEN /\ split' = [item_id |-> item_id, qty1 |-> qty1, qty2 |-> qty2, status |-> 400]
            /\ UNCHANGED db
       ELSE IF item_id \notin DOMAIN db.items
       THEN /\ split' = [item_id |-> item_id, qty1 |-> qty1, qty2 |-> qty2, status |-> 404]
            /\ UNCHANGED db
       ELSE /\ split' = [item_id |-> item_id, qty1 |-> qty1, qty2 |-> qty2, status |-> 200]
            /\ db' = [db EXCEPT !.items =
                         IF qty2 > 0
                         THEN Append([@ EXCEPT ![item_id].qty = qty1],
                                     [@[item_id] EXCEPT !.qty = qty2])
                         ELSE [@ EXCEPT ![item_id].qty = qty1]]
    /\ UNCHANGED <<calls, dim, unit, ups>>

\* item_split(item_id, qty1, qty2): the whole handler, one transaction.
ItemSplit(item_id, qty1, qty2) ==
    /\ Len(db.items) < MaxItems
    /\ IF qty1 < 0 \/ qty2 < 0
       THEN /\ split' = [item_id |-> item_id, qty1 |-> qty1, qty2 |-> qty2, status |-> 400]
            /\ UNCHANGED db
       ELSE IF item_id \notin DOMAIN db.items
       THEN /\ split' = [item_id |-> item_id, qty1 |-> qty1, qty2 |-> qty2, status |-> 404]
            /\ UNCHANGED db
       ELSE IF qty1 + qty2 # db.items[item_id].qty
       THEN /\ split' = [item_id |-> item_id, qty1 |-> qty1, qty2 |-> qty2, status |-> 400]
            /\ UNCHANGED db
       ELSE /\ split' = [item_id |-> item_id, qty1 |-> qty1, qty2 |-> qty2, status |-> 200]
            /\ db' = [db EXCEPT !.items =
                         IF qty2 > 0
                         THEN Append([@ EXCEPT ![item_id].qty = qty1],
                                     [@[item_id] EXCEPT !.qty = qty2])
                         ELSE [@ EXCEPT ![item_id].qty = qty1]]
    /\ UNCHANGED <<calls, dim, unit, ups>>

\* The records the items of the split requests come from: a Door of
\* quantity 2 and a Drawer Front of quantity 3 with a unit note.
SplitRows ==
    LineTable[Catalogue[1], 3, " | ", 1].rows \o LineTable[Catalogue[3], 3, " | ", 1].rows

\* Two orders with one or two items between them.
InitSplit ==
    /\ calls = <<>>
    /\ dim = Idle
    /\ unit = Idle
    /\ ups = Idle
    /\ split = Idle
    /\ \E n \in 1..2 : \E its \in [1..n -> {ItemOf(o, SplitRows[k]) : o \in 1..2, k \in 1..2}] :
           db = [settings |-> <<3, " | ">>,
                 orders |-> <<[job_id |-> "A"], [job_id |-> "B"]>>,
                 items |-> its]

NextSplit ==
    \E item_id \in 1..(MaxItems + 1), qty1 \in (-1)..MaxQty, qty2 \in (-1)..MaxQty :
        ItemSplit(item_id, qty1, qty2)

SpecSplit == InitSplit /\ [][NextSplit]_vars

(***************************************************************************)
(* upload_pdf.  A request reads the uploaded file, checks it, reads the    *)
(* two settings, runs parse_pdf to its end (the steps of the generator     *)
(* above) and then stores the order and its items in one transaction.      *)
(***************************************************************************)
\* Bound of the lines of an uploaded document.
MaxAppLines == 2

\* The uploaded files: no bytes ("empty"), bytes that are no PDF document
\* ("corrupt": pdfplumber.open raises on them), and the documents of the
\* lines of ConcLines, sent as PDF; one document sent as something else.
AppFiles ==
    {[bytes |-> b, pages |-> <<>>, is_pdf |-> TRUE] : b \in {"empty", "corrupt"}}
        \cup {[bytes |-> "pdf", pages |-> d, is_pdf |-> TRUE] :
                  d \in Docs(ConcLines, MaxConcPages, MaxAppLines)}
        \cup {[bytes |-> "pdf", pages |-> <<Catalogue[3]>>, is_pdf |-> FALSE]}

\* The job id each request is sent with.
JobIdOf(u) == IF u = 1 THEN "A" ELSE "B"

\* Lines 44-54: the file is read and checked, the settings are read and
\* list(parse_pdf(...)) starts; on bytes that are no PDF the first step of
\* the generator raises.
UploadBegin(u) ==
    /\ ups[u].pc = "new"
    /\ IF ups[u].file.bytes = "empty" \/ ~ups[u].file.is_pdf
       THEN /\ ups' = [ups EXCEPT ![u].pc = "rejected", ![u].status = 400]
            /\ UNCHANGED calls
       ELSE /\ ups' = [ups EXCEPT ![u].pc = "parsing"]
            /\ calls' = [calls EXCEPT ![u] =
                            IF ups[u].file.bytes = "corrupt"
                            THEN [NewCall(<<>>, db.settings[1], db.settings[2])
                                     EXCEPT !.pc = "raised", !.exc = "PDFSyntaxError"]
                            ELSE NewCall(ups[u].file.pages, db.settings[1], db.settings[2])]
    /\ UNCHANGED <<dim, unit, db, split>>

\* The exception that left parse_pdf leaves upload_pdf, and the order is
\* stored all the same, with the records collected until then.
UploadAbort_StoresPartial(u) ==
    /\ ups[u].pc = "parsing"
    /\ calls[u].pc = "raised"
    /\ ups' = [ups EXCEPT ![u].pc = "failed", ![u].status = 500]
    /\ db' = [db EXCEPT
                 !.orders = Append(@, [job_id |-> ups[u].job_id]),
                 !.items = @ \o [k \in 1..Len(calls[u].rows) |->
                                    ItemOf(Len(db.orders) + 1, calls[u].rows[k])]]
    /\ UNCHANGED <<calls, dim, unit, split>>

\* Line 54 raises: the exception that left parse_pdf leaves upload_pdf.
UploadAbort(u) ==
    /\ ups[u].pc = "parsing"
    /\ calls[u].pc = "raised"
    /\ ups' = [ups EXCEPT ![u].pc = "failed", ![u].status = 500]
    /\ UNCHANGED <<calls, dim, unit, db, split>>

\* Lines 56-62: the generator is exhausted; the order and one item for each
\* of its records are added and committed, and the response is returned.
UploadStore(u) ==
    /\ ups[u].pc = "parsing"
    /\ calls[u].pc = "done"
    /\ db' = [db EXCEPT
                 !.orders = Append(@, [job_id |-> ups[u].job_id]),
                 !.items = @ \o [k \in 1..Len(calls[u].rows) |->
                                    ItemOf(Len(db.orders) + 1, calls[u].rows[k])]]
    /\ ups' = [ups EXCEPT ![u].pc = "done", ![u].status = 200,
                          ![u].resp = [id |-> Len(db.orders) + 1,
                                       job_id |-> ups[u].job_id,
                                       saved_items |-> Len(calls[u].rows)]]
    /\ UNCHANGED <<calls, dim, unit, split>>

\* Two requests, the database empty.
InitApp ==
    /\ calls = [u \in {1, 2} |-> Idle]
    /\ dim = Idle
    /\ unit = Idle
    /\ split = Idle
    /\ \E st \in Settings : db = [settings |-> st, orders |-> <<>>, items |-> <<>>]
    /\ \E fs \in [{1, 2} -> AppFiles] :
           ups = [u \in {1, 2} |-> [pc |-> "new", job_id |-> JobIdOf(u), file |-> fs[u],
                                    status |-> 0, resp |-> None]]

NextApp ==
    \E u \in DOMAIN ups :
        \/ UploadBegin(u)
        \/ NextPage(u)
        \/ NextLine(u)
        \/ Return(u)
        \/ UploadAbort(u)
        \/ UploadStore(u)

SpecApp == InitApp /\ [][NextApp]_vars

(***************************************************************************)
(* Properties.                                                             *)
(***************************************************************************)
\* The numbers a call of frac_to_up_decimal was given: whole part, numerator
\* and denominator (0/1 when there is no fraction).
DimWhole == IntOf(dim.whole)
DimNum == IF Truthy(dim.frac) THEN IntOf(SplitSlash(dim.frac)[1]) ELSE 0
DimDen == IF Truthy(dim.frac) THEN IntOf(SplitSlash(dim.frac)[2]) ELSE 1

\* The least integer k with k / 10^places >= whole + num/den, in exact
\* integer arithmetic.
ExactCeilScaled ==
    ((DimWhole * DimDen + DimNum) * Pow10(dim.places) + DimDen - 1) \div DimDen

\* C1: for every whole part, every fraction n/d with d > 0 and every
\* precision p in 0..4, frac_to_up_decimal returns the smallest multiple of
\* 10^-p that is >= the exact value whole + n/d (as a float: the float of
\* that decimal), never a value below it and never one a full step above.
C1_SmallestMultipleAbove ==
    (dim.pc = "done" /\ DimDen > 0) =>
        /\ dim.ret.exc = None
        /\ dim.ret.val = TrueDiv(ExactCeilScaled, Pow10(dim.places))

\* The lines of the document in reading order, each with the 1-based number
\* of its page and its 1-based number on the page.
DocLines(pdf) ==
    LET RECURSIVE From(_)
        From(p) ==
            IF p > Len(pdf) THEN <<>>
            ELSE LET ls == SplitLines(OrElse(pdf[p], ""))
                 IN  [k \in 1..Len(ls) |-> [raw |-> ls[k], page |-> p, no |-> k]] \o From(p + 1)
    IN  From(1)

\* The records of the lines of the document, in order, the zero-denominator
\* lines giving none.
RECURSIVE RowsOfLines(_, _, _)
RowsOfLines(ls, places, joiner) ==
    IF Len(ls) = 0 THEN <<>>
    ELSE LineTable[ls[1].raw, places, joiner, ls[1].page].rows
         \o RowsOfLines(Tail(ls), places, joiner)

\* C2: a line with a zero denominator is dropped and parsing continues: no
\* exception leaves parse_pdf, and the records of all the valid lines
\* before and after the offending line are emitted.
C2_ZeroDenominatorLineDropped ==
    \A c \in DOMAIN calls :
        /\ calls[c].pc # "raised"
        /\ calls[c].pc = "done" =>
               calls[c].rows = RowsOfLines(DocLines(calls[c].pdf),
                                           calls[c].places, calls[c].joiner)

\* A step of the inner loop of call c: the line it consumes and the records
\* it yields.
StepsLine(c) ==
    calls[c].pc = "running" /\ ~PageDone(calls[c]) /\ calls'[c] # calls[c]
CurLine(c) == calls[c].lines[calls[c].line_no + 1]
Yielded(c) == SubSeq(calls'[c].rows, Len(calls[c].rows) + 1, Len(calls'[c].rows))

\* The line holds one of the two pagination markers.
HasMarker(raw) ==
    Contains(raw, "Continued to Next Page") \/ Contains(raw, "Continued from Last Page")

\* The denominator of a captured fraction is 0.
ZeroDen(frac) == Truthy(frac) /\ IntOf(SplitSlash(frac)[2]) = 0

\* What the two grammars make of each line of the catalogue: whether it
\* holds a marker, the two matches, and whether a fraction of the match that
\* would be used has denominator 0.
LineFacts ==
    [raw \in CatalogueLines |->
        LET m1 == LINE_DOOR_DR(Strip(raw))
            m2 == LINE_PANEL(Strip(raw))
            m  == IF m1.matched THEN m1 ELSE m2
        IN  [marker |-> HasMarker(raw), m1 |-> m1, m2 |-> m2,
             zero |-> m.matched /\ (ZeroDen(m.w_frac) \/ ZeroDen(m.h_frac))]]

\* C3: a line that holds a pagination marker yields no record, whatever else
\* it holds, and the markers are looked for before either grammar is tried:
\* the line is passed over (no conversion of its dimensions is attempted, so
\* nothing is raised) and the loop goes on with the next line.
C3_MarkerLinesSkipped ==
    [][\A c \in DOMAIN calls :
          (StepsLine(c) /\ LineFacts[CurLine(c)].marker) =>
              /\ Yielded(c) = <<>>
              /\ calls'[c].pc = "running"
              /\ calls'[c].line_no = calls[c].line_no + 1]_vars

\* C3 witness: a marker line that also matches the door grammar (with a zero
\* denominator) has been passed over and the generator is still running.
C3_Witness ==
    \E c \in DOMAIN calls :
        LET f == calls[c]
        IN  /\ f.pc = "running" /\ f.line_no >= 1 /\ f.rows = <<>>
            /\ LineFacts[f.lines[f.line_no]].marker
            /\ LineFacts[f.lines[f.line_no]].m1.matched
            /\ LineFacts[f.lines[f.line_no]].zero

\* C4 (as claimed): every line that matches both grammars yields exactly one
\* record, the structural one (type Door or Drawer Front, note starting with
\* the type name), never one of type Panel.
C4_BothGrammarsOneStructuralRecord ==
    [][\A c \in DOMAIN calls :
          (StepsLine(c) /\ LineFacts[CurLine(c)].m1.matched
                        /\ LineFacts[CurLine(c)].m2.matched) =>
              /\ Len(Yielded(c)) = 1
              /\ Yielded(c)[1].type \in {"Door", "Drawer Front"}
              /\ StartsWith(Yielded(c)[1].note, Yielded(c)[1].type)]_vars

\* C4 (amended): a line that matches both grammars never yields a record of
\* type Panel.  It yields exactly one record, the structural one, when it
\* holds no pagination marker and no fraction with denominator 0, and no
\* record otherwise.
C4_BothGrammarsStructuralWins ==
    [][\A c \in DOMAIN calls :
          (StepsLine(c) /\ LineFacts[CurLine(c)].m1.matched
                        /\ LineFacts[CurLine(c)].m2.matched) =>
              LET y  == Yielded(c)
                  lf == LineFacts[CurLine(c)]
              IN  /\ \A k \in 1..Len(y) : y[k].type # "Panel"
                  /\ IF lf.marker \/ lf.zero THEN y = <<>>
                     ELSE /\ Len(y) = 1
                          /\ y[1].type \in {"Door", "Drawer Front"}
                          /\ y[1].type = normalize_type(lf.m1.type)
                          /\ StartsWith(y[1].note, y[1].type)]_vars

\* C4 witness: a line that matches both grammars has yielded its one record,
\* a Door.
C4_Witness ==
    \E c \in DOMAIN calls :
        LET f == calls[c]
        IN  /\ f.line_no >= 1 /\ Len(f.rows) = 1
            /\ LineFacts[f.lines[f.line_no]].m1.matched
            /\ LineFacts[f.lines[f.line_no]].m2.matched
            /\ ~LineFacts[f.lines[f.line_no]].marker
            /\ f.rows[1].type = "Door"

\* The lines among all those of its document the call has consumed so far.
Consumed(f, all) ==
    SelectSeq(all, LAMBDA e : e.page < f.page_num \/ (e.page = f.page_num /\ e.no <= f.line_no))

\* The line matches neither grammar, or holds a pagination marker.
Passed(raw) ==
    LineFacts[raw].marker \/ (~LineFacts[raw].m1.matched /\ ~LineFacts[raw].m2.matched)

\* What a line gives when it is parsed on its own with the settings of the
\* call, stamped with the number of the page it stands on.
LineAlone(e, places, joiner) ==
    IF Passed(e.raw) THEN <<>>
    ELSE LET rs == LineTable[e.raw, places, joiner, 1].rows
         IN  [k \in 1..Len(rs) |-> [rs[k] EXCEPT !.source_page = e.page]]

\* The sequences of a sequence of sequences, one after the other.
RECURSIVE Flatten(_)
Flatten(ss) == IF Len(ss) = 0 THEN <<>> ELSE ss[1] \o Flatten(Tail(ss))

\* C5: the records emitted are, in page order then line order, what each
\* consumed line gives on its own (nothing is carried from one line or page
\* to the next): at most one record per line, none for an unmatched or
\* skip-marked line, which never raises, and source_page is the 1-based
\* number of the page of the line.  A call that returns has consumed every
\* line of every page.
C5_OneRecordPerLineInOrder ==
    \A c \in DOMAIN calls :
        LET f   == calls[c]
            all == DocLines(f.pdf)
            cl  == Consumed(f, all)
            per == [k \in 1..Len(cl) |-> LineAlone(cl[k], f.places, f.joiner)]
        IN  /\ f.rows = Flatten(per)
            /\ Len(f.rows) <= Len(cl)
            /\ \A k \in 1..Len(cl) : Len(per[k]) <= 1
            /\ \A k \in 1..Len(f.rows) : f.rows[k].source_page \in 1..Len(f.pdf)
            /\ \A j, k \in 1..Len(f.rows) :
                   j <= k => f.rows[j].source_page <= f.rows[k].source_page
            /\ f.pc = "raised" => ~Passed(f.lines[f.line_no + 1])
            /\ f.pc = "done" => cl = all

\* C5 witness: a call has returned from a document of two pages with a
\* record from each page, in page order.
C5_Witness ==
    \E c \in DOMAIN calls :
        /\ calls[c].pc = "done"
        /\ Len(calls[c].pdf) = 2
        /\ Len(calls[c].rows) = 2
        /\ calls[c].rows[1].source_page = 1
        /\ calls[c].rows[2].source_page = 2

\* The panel sub-kind label of a lower-cased panel text, by the order of
\* precedence of the specification.
ExpectedPanelLabel(pl) ==
    LET side  == Contains(pl, "side panel")
        left  == Contains(pl, "left")
        right == Contains(pl, "right")
        flat  == Contains(pl, "flat panel")
    IN  CASE side /\ left                -> "Side Panel Left"
          [] side /\ ~left /\ right      -> "Side Panel Right"
          [] side /\ ~left /\ ~right     -> "Side Panel"
          [] ~side /\ flat               -> "Flat Panel"
          [] ~side /\ ~flat              -> "Panel"

\* C6: the note of the record of a line classified by the panel grammar
\* starts with the sub-kind label chosen from the lower-cased panel text in
\* the fixed order side+left, side+right, side, flat, else Panel (followed
\* only by the joiner and the unit note, if the line has a unit blob).  With
\* "side panel", "left" and "right" the label is "Side Panel Left"; with
\* "side panel" and "flat panel" it is never "Flat Panel".
C6_PanelLabelPrecedence ==
    [][\A c \in DOMAIN calls :
          (StepsLine(c) /\ ~Passed(CurLine(c)) /\ ~LineFacts[CurLine(c)].m1.matched
                        /\ Yielded(c) # <<>>) =>
              LET y   == Yielded(c)
                  m   == LineFacts[CurLine(c)].m2
                  pl  == Lower(m.panel)
                  lbl == ExpectedPanelLabel(pl)
              IN  /\ Len(y) = 1
                  /\ y[1].type = "Panel"
                  /\ y[1].note = IF m.unit_blob = None THEN lbl
                                 ELSE lbl \o calls[c].joiner
                                          \o unit_blob_to_note(m.unit_blob, calls[c].joiner)
                  /\ (Contains(pl, "side panel") /\ Contains(pl, "left")
                         /\ Contains(pl, "right")) => StartsWith(y[1].note, "Side Panel Left")
                  /\ (Contains(pl, "side panel") /\ Contains(pl, "flat panel"))
                         => ~StartsWith(y[1].note, "Flat Panel")]_vars

\* C6 witness: the record of a panel line whose text holds "flat panel" and
\* "side panel" has been emitted with the label Side Panel.
C6_Witness ==
    \E c \in DOMAIN calls :
        LET f == calls[c]
        IN  /\ f.line_no >= 1 /\ Len(f.rows) >= 1
            /\ f.lines[f.line_no] = Catalogue[10]
            /\ f.rows[Len(f.rows)].note = "Side Panel"

\* C7: the note of the record of a line matched by the structural grammar is
\* the normalized type name alone when the line has no unit blob, and type +
\* joiner + unit note when it has one, the unit note being built from the
\* captured unit blob only.  "1)9 3 12 x 24 Drawer Front (FlatDR)" with
\* joiner " | " gives qty 3, style "Flat", note "Drawer Front | 1x#9".
C7_StructuralNote ==
    [][\A c \in DOMAIN calls :
          (StepsLine(c) /\ ~LineFacts[CurLine(c)].marker
                        /\ LineFacts[CurLine(c)].m1.matched /\ Yielded(c) # <<>>) =>
              LET y == Yielded(c)
                  m == LineFacts[CurLine(c)].m1
                  j == calls[c].joiner
              IN  /\ Len(y) = 1
                  /\ y[1].type \in {"Door", "Drawer Front"}
                  /\ y[1].type = (IF StartsWith(Lower(m.type), "drawer") THEN "Drawer Front"
                                  ELSE "Door")
                  /\ y[1].note = IF m.unit_blob = None THEN y[1].type
                                 ELSE y[1].type \o j \o unit_blob_to_note(m.unit_blob, j)
                  /\ (CurLine(c) = "1)9 3 12 x 24 Drawer Front (FlatDR)" /\ j = " | ") =>
                         /\ y[1].type = "Drawer Front"
                         /\ y[1].qty = 3
                         /\ y[1].style = "Flat"
                         /\ y[1].note = "Drawer Front | 1x#9"]_vars

\* C7 witness: the record of the example line has been emitted with joiner
\* " | ".
C7_Witness ==
    \E c \in DOMAIN calls :
        LET f == calls[c]
        IN  /\ f.joiner = " | " /\ f.line_no >= 1 /\ Len(f.rows) >= 1
            /\ f.lines[f.line_no] = "1)9 3 12 x 24 Drawer Front (FlatDR)"
            /\ f.rows[Len(f.rows)].note = "Drawer Front | 1x#9"

\* The five panel sub-kind labels.
PanelLabels == {"Side Panel Left", "Side Panel Right", "Side Panel", "Flat Panel", "Panel"}

\* C8 (as claimed): every record has a type among Door, Drawer Front and
\* Panel; a Panel has style "Panel" and a non-empty note that starts with a
\* panel label; a Door or Drawer Front has a style among "SFP", "Flat", ""
\* and a note that starts with the type name and contains no panel label.
C8_RecordInvariants ==
    \A c \in DOMAIN calls : \A k \in 1..Len(calls[c].rows) :
        LET r == calls[c].rows[k]
        IN  /\ r.type \in {"Door", "Drawer Front", "Panel"}
            /\ r.type = "Panel" =>
                   /\ r.style = "Panel"
                   /\ r.note # ""
                   /\ \E l \in PanelLabels : StartsWith(r.note, l)
            /\ r.type \in {"Door", "Drawer Front"} =>
                   /\ r.style \in {"SFP", "Flat", ""}
                   /\ StartsWith(r.note, r.type)
                   /\ \A l \in PanelLabels : ~Contains(r.note, l)

\* C8 (amended): as claimed, except that the note of a Door or Drawer Front
\* is free of panel labels only when the joiner of the call, which the note
\* is assembled with, holds none itself.
C8_RecordInvariantsJoinerAside ==
    \A c \in DOMAIN calls : \A k \in 1..Len(calls[c].rows) :
        LET r == calls[c].rows[k]
        IN  /\ r.type \in {"Door", "Drawer Front", "Panel"}
            /\ r.type = "Panel" =>
                   /\ r.style = "Panel"
                   /\ r.note # ""
                   /\ \E l \in PanelLabels : StartsWith(r.note, l)
            /\ r.type \in {"Door", "Drawer Front"} =>
                   /\ r.style \in {"SFP", "Flat", ""}
                   /\ StartsWith(r.note, r.type)
                   /\ (\A l \in PanelLabels : ~Contains(calls[c].joiner, l))
                          => \A l \in PanelLabels : ~Contains(r.note, l)

\* C8 witness: a call whose joiner holds no panel label has emitted a Door
\* written in capitals on a line that goes on with panel words, and a
\* Drawer Front with a unit note.
C8_Witness ==
    \E c \in DOMAIN calls :
        LET f == calls[c]
        IN  /\ f.joiner = " | " /\ Len(f.rows) = 2
            /\ f.rows[1].type = "Door" /\ f.rows[1].note = "Door"
            /\ Contains(DocLines(f.pdf)[1].raw, "DOOR Side Panel")
            /\ f.rows[2].type = "Drawer Front" /\ f.rows[2].note = "Drawer Front | 1x#9"

\* The blob as a string: no blob reads as the empty string.
BlobText == IF unit.blob = None THEN "" ELSE unit.blob

\* The positions of the ")" that stand between two digits.
Candidates(s) ==
    {p \in 2..(Len(s) - 1) :
        Ch(s, p) = ")" /\ IsDigit(Ch(s, p - 1)) /\ IsDigit(Ch(s, p + 1))}

\* Only digits stand between the positions p and q.
DigitsBetween(s, p, q) == p < q /\ \A k \in (p + 1)..(q - 1) : IsDigit(Ch(s, k))

\* The ")" at p belongs to an occurrence of the left-to-right scan: its
\* digits to the left are not the digits to the right of an occurrence
\* taken before.
RECURSIVE Taken(_, _)
Taken(s, p) ==
    /\ p \in Candidates(s)
    /\ ~\E q \in Candidates(s) : DigitsBetween(s, q, p) /\ Taken(s, q)

Occurrences(s) == {p \in Candidates(s) : Taken(s, p)}

\* The run of digits that ends just before p, and the one that starts just
\* after p.
DigitsLeft(s, p) ==
    LET a == CHOOSE i \in 1..p :
                 /\ \A k \in i..(p - 1) : IsDigit(Ch(s, k))
                 /\ (i = 1 \/ ~IsDigit(Ch(s, i - 1)))
    IN  Slice(s, a, p - 1)
DigitsRight(s, p) ==
    LET b == CHOOSE i \in p..Len(s) :
                 /\ \A k \in (p + 1)..i : IsDigit(Ch(s, k))
                 /\ (i = Len(s) \/ ~IsDigit(Ch(s, i + 1)))
    IN  Slice(s, p + 1, b)

\* The tokens of the occurrences at the positions ps, left to right.
RECURSIVE TokensOf(_, _)
TokensOf(s, ps) ==
    IF ps = {} THEN <<>>
    ELSE LET p == CHOOSE x \in ps : \A y \in ps : x <= y
         IN  <<DigitsLeft(s, p) \o "x#" \o DigitsRight(s, p)>> \o TokensOf(s, ps \ {p})

\* The number of "#" in a string.
CountHash(s) == Cardinality({i \in 1..Len(s) : Ch(s, i) = "#"})

\* C9: unit_blob_to_note returns the tokens "<qty>x#<id>" of the
\* non-overlapping occurrences of digits")"digits of the blob, scanned left
\* to right, in their order, joined by the joiner; the empty string when the
\* blob is absent, empty or holds no occurrence; as many tokens as there are
\* occurrences.  "2)9 1)12" with joiner " | " gives "2x#9 | 1x#12".
C9_UnitTokens ==
    unit.pc = "done" =>
        /\ unit.ret = Join(TokensOf(BlobText, Occurrences(BlobText)), unit.joiner)
        /\ CountHash(unit.ret) = Cardinality(Occurrences(BlobText))
        /\ Candidates(BlobText) = {} => unit.ret = ""
        /\ (unit.blob = "2)9 1)12" /\ unit.joiner = " | ") => unit.ret = "2x#9 | 1x#12"

\* C9 witness: the call on the example blob has returned its two tokens.
C9_Witness ==
    /\ unit.pc = "done"
    /\ unit.blob = "2)9 1)12"
    /\ unit.joiner = " | "
    /\ unit.ret = "2x#9 | 1x#12"

\* What a call of parse_pdf on the document emits when nothing else runs:
\* the records up to the end of the document or up to the line that raises,
\* and the exception that ends it, if any.
RECURSIVE RunAlone(_, _, _, _)
RunAlone(ls, places, joiner, rows) ==
    IF Len(ls) = 0 THEN [rows |-> rows, exc |-> None]
    ELSE LET r == LineTable[ls[1].raw, places, joiner, ls[1].page]
         IN  IF r.exc # None THEN [rows |-> rows, exc |-> r.exc]
             ELSE RunAlone(Tail(ls), places, joiner, rows \o r.rows)

IsPrefix(a, b) == Len(a) <= Len(b) /\ a = SubSeq(b, 1, Len(a))

\* C10: with the loop bodies of the calls interleaved in any order, each
\* call emits the records it emits when it runs alone: at every moment the
\* records it has emitted are the first of them, and when it ends it has
\* emitted all of them and ends the same way.
C10_ReentrantCalls ==
    \A c \in DOMAIN calls :
        LET f == calls[c]
            a == RunAlone(DocLines(f.pdf), f.places, f.joiner, <<>>)
        IN  /\ IsPrefix(f.rows, a.rows)
            /\ f.pc \in {"done", "raised"} => (f.rows = a.rows /\ f.exc = a.exc)
            /\ f.pc = "done" => a.exc = None

\* C10 witness: two calls with different settings are both between their
\* first and their second line, each with a record emitted, and the second
\* call works with a precision of its own.
C10_Witness ==
    /\ DOMAIN calls = {1, 2}
    /\ calls[1].places # calls[2].places
    /\ calls[1].joiner # calls[2].joiner
    /\ \A c \in {1, 2} :
           /\ calls[c].pc = "running"
           /\ calls[c].line_no = 1 /\ Len(calls[c].lines) = 2
           /\ Len(calls[c].rows) = 1

\* The sum of qty over the items of an order.
RECURSIVE SumQty(_, _)
SumQty(items, order_id) ==
    IF Len(items) = 0 THEN 0
    ELSE (IF items[1].order_id = order_id THEN items[1].qty ELSE 0)
         + SumQty(Tail(items), order_id)

\* C11: item_split conserves quantity.  A request with qty1 < 0, qty2 < 0 or
\* qty1 + qty2 other than the quantity of the item is rejected and changes
\* no item.  Otherwise the quantity of the item becomes qty1 and nothing
\* else of it changes, the other items stay as they are, and one item is
\* added when qty2 > 0 (none when qty2 = 0): a copy of the original with
\* quantity qty2.  Every split leaves the sum of qty of every order as it was.
C11_SplitConservesQty ==
    [][LET q   == split'
           old == db.items
           new == db'.items
       IN  /\ db'.orders = db.orders
           /\ \A o \in 1..Len(db.orders) : SumQty(new, o) = SumQty(old, o)
           /\ q.item_id \in DOMAIN old =>
                  IF q.qty1 < 0 \/ q.qty2 < 0 \/ q.qty1 + q.qty2 # old[q.item_id].qty
                  THEN q.status = 400 /\ new = old
                  ELSE /\ q.status = 200
                       /\ new[q.item_id] = [old[q.item_id] EXCEPT !.qty = q.qty1]
                       /\ \A i \in DOMAIN old : i # q.item_id => new[i] = old[i]
                       /\ Len(new) = Len(old) + (IF q.qty2 > 0 THEN 1 ELSE 0)
                       /\ q.qty2 > 0 =>
                              new[Len(new)] = [old[q.item_id] EXCEPT !.qty = q.qty2]
           /\ q.item_id \notin DOMAIN old => new = old]_vars

\* C11 witness: after two splits that each added an item, the Drawer Front
\* of quantity 3 stands as three items of quantity 1.
C11_Witness ==
    /\ split # Idle
    /\ split.status = 200
    /\ Len(db.items) = 3
    /\ \A i \in 1..3 : db.items[i].qty = 1 /\ db.items[i].type = "Drawer Front"


\* What parse_pdf makes of the file of request u when it runs alone with the
\* stored settings: its records, and the exception that ends it, if any.
ParseOf(u) ==
    IF ups[u].file.bytes = "corrupt"
    THEN [rows |-> <<>>, exc |-> "PDFSyntaxError"]
    ELSE RunAlone(DocLines(ups[u].file.pages), db.settings[1], db.settings[2], <<>>)

\* The orders stored for request u, and the items of these orders, in the
\* order of the table.
OrdersOf(u) == {o \in 1..Len(db.orders) : db.orders[o].job_id = ups[u].job_id}
ItemsOf(u) == SelectSeq(db.items, LAMBDA it : it.order_id \in OrdersOf(u))

\* C12: upload_pdf is all-or-nothing.  At every moment, whatever the other
\* request does: a request that has not returned its response has no order
\* and no item stored, neither while it parses nor after its parsing was
\* aborted by an error; a request that has returned its response has parsed
\* its whole file without error and has exactly one order stored, with
\* exactly one item for each record of the file, in order, and saved_items
\* is their number; nothing else is stored.
C12_UploadAllOrNothing ==
    /\ \A u \in DOMAIN ups :
           Let(ParseOf(u), LAMBDA a :
               /\ ups[u].pc = "failed" => a.exc # None
               /\ ups[u].pc = "parsing" /\ calls[u].pc = "done" => calls[u].rows = a.rows
               /\ IF ups[u].pc = "done"
                  THEN /\ a.exc = None
                       /\ OrdersOf(u) = {ups[u].resp.id}
                       /\ ups[u].resp.saved_items = Len(a.rows)
                       /\ ItemsOf(u) = [k \in 1..Len(a.rows) |-> ItemOf(ups[u].resp.id, a.rows[k])]
                  ELSE /\ OrdersOf(u) = {}
                       /\ ItemsOf(u) = <<>>)
    /\ \A o \in 1..Len(db.orders) : \E u \in DOMAIN ups : o \in OrdersOf(u)
    /\ \A i \in 1..Len(db.items) : db.items[i].order_id \in 1..Len(db.orders)

\* C12 witness: one request has stored its order with two items after the
\* other one was aborted by an error on its second line, a record emitted
\* before it, and one order and two items are all that is stored.
C12_Witness ==
    /\ DOMAIN ups = {1, 2}
    /\ ups[1].pc = "failed"
    /\ Len(calls[1].rows) = 1
    /\ ups[2].pc = "done"
    /\ ups[2].resp.saved_items = 2
    /\ Len(db.orders) = 1
    /\ Len(db.items) = 2

====
